---- MODULE Spec2Model ----
(***************************************************************************)
(* Model of src/src/module_1/module_1_meteo_api.py: the response           *)
(* validator (validate_response_schema), the aggregator (process_data),    *)
(* the fetch wrapper (get_data_meteo_api) and the driver (main).           *)
(*                                                                         *)
(* Representation.                                                         *)
(*  - A dictionary key is a sequence of name tokens: the key               *)
(*    f"{variable}_{model}" is <<variable, model>>, the key "time" is      *)
(*    <<"time">>.  None of the configured variable names is a character    *)
(*    prefix of another or of "time", so str.startswith on these keys is   *)
(*    the prefix relation on the token sequences.                          *)
(*  - A JSON reading is a tagged record: a number, null, or a string.      *)
(*  - A Python float is kept exact: a mean is a normalised fraction and    *)
(*    a standard deviation x ** 0.5 is the record [sqrt_of |-> x].         *)
(*  - None is a record with none = TRUE.                                   *)
(***************************************************************************)
EXTENDS Integers, Sequences, FiniteSets, TLC

VARIABLES pc, city, data, verdict, daily, processed, processed2, trace, uncaught, images

vars == <<pc, city, data, verdict, daily, processed, processed2, trace, uncaught, images>>

----------------------------------------------------------------------------
(* Bounds *)

\* number of entries of VARIABLES (of 3) the model keeps
NumVariables == 2

\* number of entries of MODELS (of 7) the model keeps
NumModels == 2

\* longest `time` / reading sequence of a response
MaxLen == 2

----------------------------------------------------------------------------
(* Configuration *)

COORDINATES == <<"Madrid", "London", "Rio">>

AllVariables == <<"temperature_2m_mean", "precipitation_sum", "soil_moisture_0_to_10cm_mean">>

AllModels == <<"CMCC_CM2_VHR4", "FGOALS_f3_H", "HiRAM_SIT_HR", "MRI_AGCM3_2_S", "EC_Earth3P_HR", "MPI_ESM1_2_XR", "NICAM16_8S">>

Min(a, b) == IF a < b THEN a ELSE b

VARIABLES_LIST == SubSeq(AllVariables, 1, Min(NumVariables, Len(AllVariables)))

MODELS == SubSeq(AllModels, 1, Min(NumModels, Len(AllModels)))

\* f"{variable}_{model}"
CompositeKey(variable, model) == <<variable, model>>

\* [f"{variable}_{model}" for variable in VARIABLES for model in MODELS]
VARIABLES_MODELS == [k \in 1..(Len(VARIABLES_LIST) * Len(MODELS)) |-> CompositeKey(VARIABLES_LIST[((k - 1) \div Len(MODELS)) + 1], MODELS[((k - 1) % Len(MODELS)) + 1])]

TimeKey == <<"time">>

\* key.startswith(variable)
StartsWith(key, variable) == Len(key) >= 1 /\ key[1] = variable

Range(s) == {s[i] : i \in 1..Len(s)}

----------------------------------------------------------------------------
(* JSON values *)

Num(x) == [t |-> "num", v |-> x]

Null == [t |-> "null", v |-> 0]

Str == [t |-> "str", v |-> 0]

EmptyDict == [k \in {} |-> <<>>]

NoneDict == [none |-> TRUE, dict |-> EmptyDict]

Some(d) == [none |-> FALSE, dict |-> d]

\* dict with key removed
Without(d, key) == [k \in (DOMAIN d) \ {key} |-> d[k]]

\* truth value of `data` in `if not data` / `if data`
Truthy(x) == (~x.none) /\ (DOMAIN x.dict # {})

----------------------------------------------------------------------------
(* Responses the model draws from *)

Dates == <<"2021-01-01", "2021-01-02">>

\* the reading series of the repository's tests (soil moisture in tenths)
TestSeries == << <<10, 15, 28, 20>>, <<0, 5, 2, 9>>, <<5, 2, 7, 6>> >>

\* a key of the tests' inputs: the bare variable name, without a model
BareKey == <<VARIABLES_LIST[1]>>

\* order of the keys in the JSON object (dict insertion order)
KeyOrder == <<TimeKey>> \o VARIABLES_MODELS \o <<BareKey>>

Position(seq, x) == CHOOSE j \in 1..Len(seq) : seq[j] = x

\* the series a key draws its readings from: the variable's own series for
\* the bare key and the first model, the following ones for the other models
SeriesOf(key) == IF Len(key) = 1 THEN Position(VARIABLES_LIST, key[1]) ELSE Position(VARIABLES_LIST, key[1]) + Position(MODELS, key[2]) - 1

BaseReading(key, i) == Num(TestSeries[((SeriesOf(key) - 1) % Len(TestSeries)) + 1][((i - 1) % 4) + 1])

\* a reading sequence of length len whose last entry is spoiled
Readings(key, len, spoil) == [i \in 1..len |-> IF i = len /\ spoil = "null" THEN Null ELSE IF i = len /\ spoil = "str" THEN Str ELSE BaseReading(key, i)]

TimeSeqs == UNION {[1..l -> Range(Dates)] : l \in 0..MaxLen}

\* what the one departing key of a response holds instead of the common
\* sequence: nothing (the key is absent), or a sequence of its own
Absent == [len |-> -1, spoil |-> "absent"]

DevOptions == {Absent} \cup [len : 0..MaxLen, spoil : {"none", "null", "str"}]

\* every key of `present` with its series cut to the common length n
Common(present, n) == [k \in present |-> Readings(k, n, "none")]

Deviate(d, key, opt) == IF opt = Absent THEN Without(d, key) ELSE [d EXCEPT ![key] = Readings(key, opt.len, opt.spoil)]

\* the reading dictionaries over the given sets of present keys: every key
\* has the common length n, but for at most one key, which departs
ReadingDictsOver(presents) == UNION {UNION {{Common(present, n)} \cup {Deviate(Common(present, n), key, opt) : key \in present, opt \in DevOptions} : n \in 0..MaxLen} : present \in presents}

WithTime(d, ts) == [k \in (DOMAIN d) \cup {TimeKey} |-> IF k = TimeKey THEN ts ELSE d[k]]

DailiesOver(presents) == ReadingDictsOver(presents) \cup {WithTime(d, ts) : d \in ReadingDictsOver(presents), ts \in TimeSeqs}

NoResponse == [has_daily |-> FALSE, daily |-> EmptyDict]

ResponsesOver(presents) == {NoResponse} \cup {[has_daily |-> TRUE, daily |-> d] : d \in DailiesOver(presents)}

\* the composite keys of a set of variables
KeysOf(variables) == {key \in Range(VARIABLES_MODELS) : key[1] \in variables}

\* the keys a response has before one departs: all composite keys of some of
\* the variables, with or without the bare key of the tests
Presents == {KeysOf(variables) \cup bare : variables \in SUBSET Range(VARIABLES_LIST), bare \in {{}, {BareKey}}}

Responses == ResponsesOver(Presents)

----------------------------------------------------------------------------
(* validate_response_schema *)

Ok == [msg |-> "ok", variable |-> <<>>]

Raise(msg, variable) == [msg |-> msg, variable |-> variable]

\* for variable in VARIABLES_MODELS: if variable not in data["daily"]: raise
RECURSIVE MissingVariable(_, _)
MissingVariable(d, k) == IF k > Len(VARIABLES_MODELS) THEN Ok ELSE IF VARIABLES_MODELS[k] \notin DOMAIN d THEN Raise("Variable not found in response.", VARIABLES_MODELS[k]) ELSE MissingVariable(d, k + 1)

\* the check for an empty `time` left out
TimeIsEmptyUnchecked(d) == FALSE

\* len(data["daily"]["time"]) == 0
TimeIsEmpty(d) == Len(d[TimeKey]) = 0

\* for variable in VARIABLES_MODELS: if len(...) != len(time): raise
RECURSIVE LengthMismatch(_, _)
LengthMismatch(d, k) == IF k > Len(VARIABLES_MODELS) THEN Ok ELSE IF Len(d[VARIABLES_MODELS[k]]) # Len(d[TimeKey]) THEN Raise("Data length mismatch for variable.", VARIABLES_MODELS[k]) ELSE LengthMismatch(d, k + 1)

\* the `time` checks made before the loop over the variables
validate_time_first(r) == IF ~r.has_daily THEN Raise("Daily data not found in response.", <<>>) ELSE IF TimeKey \notin DOMAIN r.daily THEN Raise("Time data not found in response.", <<>>) ELSE IF MissingVariable(r.daily, 1) # Ok THEN MissingVariable(r.daily, 1) ELSE IF TimeIsEmpty(r.daily) THEN Raise("No time data found in response.", <<>>) ELSE LengthMismatch(r.daily, 1)

validate_response_schema(r) == IF ~r.has_daily THEN Raise("Daily data not found in response.", <<>>) ELSE IF MissingVariable(r.daily, 1) # Ok THEN MissingVariable(r.daily, 1) ELSE IF TimeKey \notin DOMAIN r.daily THEN Raise("Time data not found in response.", <<>>) ELSE IF TimeIsEmpty(r.daily) THEN Raise("No time data found in response.", <<>>) ELSE LengthMismatch(r.daily, 1)

----------------------------------------------------------------------------
(* Exact arithmetic for Python floats *)

Abs(x) == IF x < 0 THEN -x ELSE x

RECURSIVE GCD(_, _)
GCD(a, b) == IF b = 0 THEN a ELSE GCD(b, a % b)

\* the fraction n / d, d > 0, in lowest terms
Frac(n, d) == LET g == GCD(Abs(n), d) IN [num |-> n \div g, den |-> d \div g]

\* x ** 0.5
PowHalf(x) == [sqrt_of |-> x]

RECURSIVE SumValues(_)
SumValues(list) == IF list = <<>> THEN 0 ELSE Head(list).v + SumValues(Tail(list))

\* sum([(x - avg) ** 2 for x in list]) for avg = a.num / a.den, over a.den ** 2
RECURSIVE SumSquaredDeviations(_, _)
SumSquaredDeviations(list, a) == IF list = <<>> THEN 0 ELSE (Head(list).v * a.den - a.num) * (Head(list).v * a.den - a.num) + SumSquaredDeviations(Tail(list), a)

----------------------------------------------------------------------------
(* process_data *)

NoFrames == [variable \in Range(VARIABLES_LIST) |-> <<>>]

\* outcome of a call: the value returned (None or the frames), or an
\* exception raised to the caller
ReturnNone == [none |-> TRUE, raised |-> FALSE, frames |-> NoFrames]

ReturnFrames(frames) == [none |-> FALSE, raised |-> FALSE, frames |-> frames]

Raised == [none |-> FALSE, raised |-> TRUE, frames |-> NoFrames]

NotCalled == [none |-> FALSE, raised |-> FALSE, frames |-> NoFrames, called |-> FALSE]

\* data.items(), in insertion order
Items(d) == SelectSeq(KeyOrder, LAMBDA key : key \in DOMAIN d)

\* a null reading left out of the list instead of counted as 0
AppendDatapointSkipNull(list, value) == IF value.t # "null" THEN Append(list, value) ELSE list

\* if value is not None: append(value) else: append(0)
AppendDatapoint(list, value) == IF value.t # "null" THEN Append(list, value) ELSE Append(list, Num(0))

\* the inner loop over data.items() for one variable and one index;
\* values[index] raises IndexError past the end of the sequence
RECURSIVE Datapoints(_, _, _, _, _)
Datapoints(d, keys, variable, index, list) == IF keys = <<>> THEN [raised |-> FALSE, list |-> list] ELSE IF ~StartsWith(Head(keys), variable) THEN Datapoints(d, Tail(keys), variable, index, list) ELSE IF index > Len(d[Head(keys)]) THEN [raised |-> TRUE, list |-> list] ELSE Datapoints(d, Tail(keys), variable, index, AppendDatapoint(list, d[Head(keys)][index]))

\* the statistics computed without the check for an empty list
HasDatapointsUnchecked(list) == TRUE

\* if v_datapoints[variable]:
HasDatapoints(list) == list # <<>>

\* avg = sum(list) / len(list)
Average(list) == Frac(SumValues(list), Len(list))

\* std = (sum([(x - avg) ** 2 for x in list]) / len(list)) ** 0.5
StdDeviation(list, avg) == PowHalf(Frac(SumSquaredDeviations(list, avg), avg.den * avg.den * Len(list)))

\* sum() raises TypeError on a string, the division ZeroDivisionError on []
StatsRaise(list) == list = <<>> \/ \E j \in 1..Len(list) : list[j].t = "str"

NewRow(timestamp, list) == [timestamp |-> timestamp, mean |-> Average(list), std |-> StdDeviation(list, Average(list))]

\* `for variable in VARIABLES.split(",")` of one index: the list of every
\* variable, in the order of VARIABLES
RECURSIVE CollectAll(_, _, _)
CollectAll(d, index, k) == IF k > Len(VARIABLES_LIST) THEN [raised |-> FALSE, lists |-> <<>>] ELSE IF Datapoints(d, Items(d), VARIABLES_LIST[k], index, <<>>).raised \/ CollectAll(d, index, k + 1).raised THEN [raised |-> TRUE, lists |-> <<>>] ELSE [raised |-> FALSE, lists |-> <<Datapoints(d, Items(d), VARIABLES_LIST[k], index, <<>>).list>> \o CollectAll(d, index, k + 1).lists]

\* `for variable in v_datapoints` of one index: a row appended to the frame
\* of every variable whose list is not empty
RECURSIVE AppendRows(_, _, _, _)
AppendRows(lists, timestamp, k, acc) == IF k > Len(lists) THEN acc ELSE IF ~HasDatapoints(lists[k]) THEN AppendRows(lists, timestamp, k + 1, acc) ELSE IF StatsRaise(lists[k]) THEN Raised ELSE AppendRows(lists, timestamp, k + 1, ReturnFrames([acc.frames EXCEPT ![VARIABLES_LIST[k]] = Append(@, NewRow(timestamp, lists[k]))]))

\* one pass of `for index, timestamp in enumerate(timestamps)`
IndexStep(d, timestamps, index, acc) == IF CollectAll(d, index, 1).raised THEN Raised ELSE AppendRows(CollectAll(d, index, 1).lists, timestamps[index], 1, acc)

RECURSIVE IndexLoop(_, _, _, _)
IndexLoop(d, timestamps, index, acc) == IF acc.raised \/ index > Len(timestamps) THEN acc ELSE IndexLoop(d, timestamps, index + 1, IndexStep(d, timestamps, index, acc))

\* the body of the try block: data.pop("time") raises KeyError
TryBody(d) == IF TimeKey \notin DOMAIN d THEN Raised ELSE IndexLoop(Without(d, TimeKey), d[TimeKey], 1, ReturnFrames(NoFrames))

\* the exception left to propagate
ExceptReraise(outcome) == outcome

\* except Exception as e: ... return None
ExceptReturnNone(outcome) == IF outcome.raised THEN ReturnNone ELSE outcome

\* the argument after the call: data.pop("time") has removed the key
AfterPop(x) == IF Truthy(x) /\ TimeKey \in DOMAIN x.dict THEN Some(Without(x.dict, TimeKey)) ELSE x

process_data(x) == IF ~Truthy(x) THEN ReturnNone ELSE ExceptReturnNone(TryBody(x.dict))

Called(outcome) == [none |-> outcome.none, raised |-> outcome.raised, frames |-> outcome.frames, called |-> TRUE]

----------------------------------------------------------------------------
(* Direct calls: validate_response_schema(data), then process_data twice   *)
(* on the same object, as the repository's tests call them.                *)

NoVerdict == [msg |-> "not called", variable |-> <<>>]

Init == /\ pc = "call_validate"
        /\ city = 0
        /\ data \in Responses
        /\ verdict = NoVerdict
        /\ daily = (IF data.has_daily THEN Some(data.daily) ELSE NoneDict)
        /\ processed = NotCalled
        /\ processed2 = NotCalled
        /\ trace = <<>>
        /\ uncaught = FALSE
        /\ images = {}

CallValidate == /\ pc = "call_validate"
                /\ verdict' = validate_response_schema(data)
                /\ pc' = "call_process"
                /\ UNCHANGED <<city, data, daily, processed, processed2, trace, uncaught, images>>

CallProcess == /\ pc = "call_process"
               /\ processed' = Called(process_data(daily))
               /\ daily' = AfterPop(daily)
               /\ pc' = "call_process_again"
               /\ UNCHANGED <<city, data, verdict, processed2, trace, uncaught, images>>

CallProcessAgain == /\ pc = "call_process_again"
                    /\ processed2' = Called(process_data(daily))
                    /\ daily' = AfterPop(daily)
                    /\ pc' = "calls_done"
                    /\ UNCHANGED <<city, data, verdict, processed, trace, uncaught, images>>

Next == CallValidate \/ CallProcess \/ CallProcessAgain

Spec == Init /\ [][Next]_vars

----------------------------------------------------------------------------
(* get_data_meteo_api and main *)

\* ways requests.get / raise_for_status / response.json fail; each is
\* caught by one of the except clauses, which returns None
FetchFailures == {"HTTPError 429", "HTTPError", "RequestException", "ValueError"}

\* responses the driver's fetch draws from: the objects with `time` and the
\* composite keys, one of which may depart, and the one without `daily`
MainResponses == ResponsesOver({Range(VARIABLES_MODELS)})

\* data["daily"] returned whatever the validator said
get_data_return_unvalidated(r, v) == IF r.has_daily THEN Some(r.daily) ELSE NoneDict

\* try: validate_response_schema(data); return data["daily"]
\* except Exception: return None
get_data_return(r, v) == IF v = Ok THEN Some(r.daily) ELSE NoneDict

\* main without its try / except
AfterExceptionPropagate == "propagate"

\* except Exception as e: print(...), and the loop goes on
AfterException == "next city"

Event(stage, c, ok) == [stage |-> stage, city |-> c, ok |-> ok]

InitMain == /\ pc = "fetch"
            /\ city = 1
            /\ data = NoResponse
            /\ verdict = NoVerdict
            /\ daily = NoneDict
            /\ processed = NotCalled
            /\ processed2 = NotCalled
            /\ trace = <<>>
            /\ uncaught = FALSE
            /\ images = {}

\* the next iteration of `for city in COORDINATES`, or the end of main.
\* The locals of the iteration (data, processed_data, and the response and
\* verdict inside get_data_meteo_api) are dead here: each is assigned again
\* before it is read, so the model clears them.
NextCity == /\ city' = city + 1
            /\ pc' = IF city = Len(COORDINATES) THEN "done" ELSE "fetch"
            /\ uncaught' = uncaught
            /\ data' = NoResponse
            /\ verdict' = NoVerdict
            /\ daily' = NoneDict
            /\ processed' = NotCalled

\* an exception reaches the try block of main
MainException == IF AfterException = "next city" THEN NextCity ELSE (city' = city /\ pc' = "crashed" /\ uncaught' = TRUE /\ UNCHANGED <<data, verdict, daily, processed>>)

MainFetchFail == /\ pc = "fetch"
                 /\ \E failure \in FetchFailures : trace' = Append(trace, Event("fetch", city, FALSE))
                 /\ NextCity
                 /\ UNCHANGED <<processed2, images>>

MainFetchOk == /\ pc = "fetch"
               /\ data' \in MainResponses
               /\ trace' = Append(trace, Event("fetch", city, TRUE))
               /\ pc' = "validate"
               /\ UNCHANGED <<city, verdict, daily, processed, processed2, uncaught, images>>

MainValidate == /\ pc = "validate"
                /\ trace' = Append(trace, Event("validate", city, validate_response_schema(data) = Ok))
                /\ IF Truthy(get_data_return(data, validate_response_schema(data)))
                   THEN (pc' = "process" /\ verdict' = validate_response_schema(data) /\ daily' = get_data_return(data, validate_response_schema(data)) /\ UNCHANGED <<city, uncaught, data, processed>>)
                   ELSE NextCity
                /\ UNCHANGED <<processed2, images>>

MainProcess == /\ pc = "process"
               /\ trace' = Append(trace, Event("aggregate", city, ~process_data(daily).none /\ ~process_data(daily).raised))
               /\ IF process_data(daily).raised
                  THEN MainException
                  ELSE IF ~process_data(daily).none
                       THEN (pc' = "plot" /\ processed' = Called(process_data(daily)) /\ daily' = AfterPop(daily) /\ UNCHANGED <<city, uncaught, data, verdict>>)
                       ELSE NextCity
               /\ UNCHANGED <<processed2, images>>

\* plot_data(processed_data, city): the figure is saved, or matplotlib /
\* pandas raise
MainPlot == /\ pc = "plot"
            /\ \E raises \in BOOLEAN : (trace' = Append(trace, Event("render", city, ~raises)) /\ images' = (IF raises THEN images ELSE images \cup {COORDINATES[city]}) /\ (IF raises THEN MainException ELSE NextCity))
            /\ UNCHANGED <<processed2>>

NextMain == MainFetchFail \/ MainFetchOk \/ MainValidate \/ MainProcess \/ MainPlot

SpecMain == InitMain /\ [][NextMain]_vars

----------------------------------------------------------------------------
(* Vocabulary of the properties, stated on the input rather than on the    *)
(* code's intermediate values                                              *)

\* the object the direct calls pass to process_data, before any call
Input == IF data.has_daily THEN Some(data.daily) ELSE NoneDict

HasTime(x) == Truthy(x) /\ TimeKey \in DOMAIN x.dict

\* the keys of the input whose name starts with the metric name
MatchingKeys(d, variable) == {key \in (DOMAIN d) \ {TimeKey} : StartsWith(key, variable)}

ValueOrZero(x) == IF x.t = "null" THEN 0 ELSE x.v

RECURSIVE SumFn(_)
SumFn(f) == IF DOMAIN f = {} THEN 0 ELSE LET k == CHOOSE k \in DOMAIN f : TRUE IN f[k] + SumFn([j \in (DOMAIN f) \ {k} |-> f[j]])

MinOf(S) == CHOOSE x \in S : \A y \in S : x <= y

\* the response is structurally complete
WellFormed(r) == /\ r.has_daily
                 /\ TimeKey \in DOMAIN r.daily
                 /\ Len(r.daily[TimeKey]) > 0
                 /\ \A key \in Range(VARIABLES_MODELS) : key \in DOMAIN r.daily /\ Len(r.daily[key]) = Len(r.daily[TimeKey])

AbsentKeys(r) == {k \in 1..Len(VARIABLES_MODELS) : VARIABLES_MODELS[k] \notin DOMAIN r.daily}

MismatchKeys(r) == {k \in 1..Len(VARIABLES_MODELS) : Len(r.daily[VARIABLES_MODELS[k]]) # Len(r.daily[TimeKey])}

\* the failure of the first of the five conditions that does not hold
FirstFailure(r) == IF ~r.has_daily THEN Raise("Daily data not found in response.", <<>>) ELSE IF AbsentKeys(r) # {} THEN Raise("Variable not found in response.", VARIABLES_MODELS[MinOf(AbsentKeys(r))]) ELSE IF TimeKey \notin DOMAIN r.daily THEN Raise("Time data not found in response.", <<>>) ELSE IF Len(r.daily[TimeKey]) = 0 THEN Raise("No time data found in response.", <<>>) ELSE IF MismatchKeys(r) # {} THEN Raise("Data length mismatch for variable.", VARIABLES_MODELS[MinOf(MismatchKeys(r))]) ELSE Ok

\* a reading of a matching key makes the computation raise: the sequence
\* ends before `time` does, or holds a string at an index of `time`
KeyRaises(d, key) == Len(d[key]) < Len(d[TimeKey]) \/ (\E i \in 1..Len(d[key]) : i <= Len(d[TimeKey]) /\ d[key][i].t = "str")

ReadingError(d) == \E variable \in Range(VARIABLES_LIST) : \E key \in MatchingKeys(d, variable) : KeyRaises(d, key)

\* position of a date string in calendar order
DateOrd(date) == CHOOSE j \in 1..Len(Dates) : Dates[j] = date

FirstDone == processed.called /\ pc \in {"call_process_again", "calls_done"}

----------------------------------------------------------------------------
(* Properties *)

Cells(d, variable, date) == {c \in MatchingKeys(d, variable) \X (1..Len(d[TimeKey])) : d[TimeKey][c[2]] = date}

RowIsMeanOfDate(d, variable, row) == row.mean.num * Cardinality(Cells(d, variable, row.timestamp)) = row.mean.den * SumFn([c \in Cells(d, variable, row.timestamp) |-> ValueOrZero(d[c[1]][c[2]])])

OneRowPerDate(d, variable, rows) == Len(rows) = Cardinality(Range(d[TimeKey])) /\ (\A r \in 1..Len(rows) : RowIsMeanOfDate(d, variable, rows[r]))

C3_OneRowPerDistinctDate == (FirstDone /\ ~processed.none) => \A variable \in Range(VARIABLES_LIST) : (MatchingKeys(data.daily, variable) # {}) => OneRowPerDate(data.daily, variable, processed.frames[variable])

\* C4: the row emitted for time index i has mean = (sum of the values at i
\* over the keys starting with the metric name, null counted as 0) / (number
\* of those keys), and std = the population standard deviation of the same
\* values; the row carries the timestamp of index i.
SumAt(d, variable, i) == SumFn([key \in MatchingKeys(d, variable) |-> ValueOrZero(d[key][i])])

SumSquaresAt(d, variable, i) == SumFn([key \in MatchingKeys(d, variable) |-> ValueOrZero(d[key][i]) * ValueOrZero(d[key][i])])

CountOf(d, variable) == Cardinality(MatchingKeys(d, variable))

RowIsMeanStdOfIndex(d, variable, i, row) == /\ row.timestamp = d[TimeKey][i]
                                            /\ row.mean.num * CountOf(d, variable) = SumAt(d, variable, i) * row.mean.den
                                            /\ row.std.sqrt_of.num * CountOf(d, variable) * CountOf(d, variable) = (CountOf(d, variable) * SumSquaresAt(d, variable, i) - SumAt(d, variable, i) * SumAt(d, variable, i)) * row.std.sqrt_of.den

OneRowPerIndex(d, variable, rows) == IF MatchingKeys(d, variable) = {} THEN rows = <<>> ELSE (Len(rows) = Len(d[TimeKey]) /\ (\A i \in 1..Len(d[TimeKey]) : RowIsMeanStdOfIndex(d, variable, i, rows[i])))

TenAndNullAt(d, variable, i) == CountOf(d, variable) = 2 /\ (\E k1 \in MatchingKeys(d, variable) : d[k1][i] = Null) /\ (\E k2 \in MatchingKeys(d, variable) : d[k2][i] = Num(10))

C5_SecondCallSameOutput == (pc = "calls_done" /\ verdict = Ok) => (processed2.none = processed.none /\ processed2.frames = processed.frames)

\* C7: the rows of every series returned by process_data are in ascending
\* order of their date, whatever the order of `time`.
C7_RowsAscendingByDate == (FirstDone /\ ~processed.none) => \A variable \in Range(VARIABLES_LIST) : \A i, j \in 1..Len(processed.frames[variable]) : (i < j) => DateOrd(processed.frames[variable][i].timestamp) <= DateOrd(processed.frames[variable][j].timestamp)

\* C8: process_data never raises to its caller; a falsy input gives None,
\* and a missing `time`, a matching sequence shorter than `time` or a
\* non-numeric reading gives None.
C8_NeverRaises == /\ processed.called => ~processed.raised
                  /\ processed2.called => ~processed2.raised
                  /\ FirstDone => /\ (~Truthy(Input)) => processed.none
                                  /\ (Truthy(Input) /\ ~HasTime(Input)) => processed.none
                                  /\ (HasTime(Input) /\ ReadingError(Input.dict)) => processed.none

C8_Witness == /\ FirstDone
              /\ HasTime(Input)
              /\ \E key \in MatchingKeys(data.daily, VARIABLES_LIST[1]) : Len(data.daily[key]) < Len(data.daily[TimeKey]) /\ Len(data.daily[key]) > 0
              /\ processed.none
              /\ ~processed.raised

\* C9, as the claim states it: when no key of the input starts with some
\* base metric's name (its collected list is zero-length at a time index),
\* process_data returns None.
SomeMetricUnmatched == FirstDone /\ HasTime(Input) /\ Len(data.daily[TimeKey]) > 0 /\ (\E variable \in Range(VARIABLES_LIST) : MatchingKeys(data.daily, variable) = {})

C9_EmptyListGivesNone == SomeMetricUnmatched => processed.none

\* C9, amended: a zero-length list is skipped, not an error.  The call
\* returns None exactly when a reading of another metric raises, and
\* otherwise returns a result in which the metric's series has no rows.
C9_EmptyListIsSkipped == SomeMetricUnmatched => /\ processed.none <=> ReadingError(data.daily)
                                                /\ (~processed.none) => (\A variable \in Range(VARIABLES_LIST) : (MatchingKeys(data.daily, variable) = {}) => processed.frames[variable] = <<>>)

C9_Witness == /\ SomeMetricUnmatched
              /\ MatchingKeys(data.daily, VARIABLES_LIST[1]) = {}
              /\ MatchingKeys(data.daily, VARIABLES_LIST[2]) # {}
              /\ ~processed.none
              /\ processed.frames[VARIABLES_LIST[1]] = <<>>
              /\ Len(processed.frames[VARIABLES_LIST[2]]) = Len(data.daily[TimeKey])

----------------------------------------------------------------------------
(* Properties of the driver *)

FetchEvents == SelectSeq(trace, LAMBDA e : e.stage = "fetch")

\* the event ends the work on its location
Terminal(e) == e.stage = "render" \/ ~e.ok

FetchesInOrder == \A j \in 1..Len(FetchEvents) : FetchEvents[j].city = j

\* C6: main attempts every configured location exactly once, in
\* configuration order, whatever the outcome of earlier locations, and never
\* terminates with an exception: no exception escapes main; the fetches made
\* so far are those of the first locations, once each and in order; as soon
\* as the work on a location has ended, in success or in any failure, main
\* stands at the fetch of the next location, or is done after the last one;
\* and when main is done every location has been fetched.
C6_EveryLocationAttempted == /\ ~uncaught
                             /\ pc \in {"fetch", "validate", "process", "plot", "done"}
                             /\ FetchesInOrder
                             /\ Len(FetchEvents) = (IF pc \in {"fetch", "done"} THEN city - 1 ELSE city)
                             /\ (trace # <<>> /\ Terminal(trace[Len(trace)])) => (city = trace[Len(trace)].city + 1 /\ pc = (IF city > Len(COORDINATES) THEN "done" ELSE "fetch"))
                             /\ (pc = "done") => Len(FetchEvents) = Len(COORDINATES)

C6_Witness == /\ pc = "done"
              /\ Len(FetchEvents) = Len(COORDINATES)
              /\ \E j \in 1..Len(trace) : trace[j] = Event("render", 1, FALSE)
              /\ \E j \in 1..Len(trace) : trace[j] = Event("validate", 2, FALSE)
              /\ \E j \in 1..Len(trace) : trace[j] = Event("fetch", 3, TRUE)

StageFollows(j) == IF trace[j].stage = "fetch" THEN (IF j = 1 THEN trace[j].city = 1 ELSE (Terminal(trace[j - 1]) /\ trace[j].city = trace[j - 1].city + 1)) ELSE IF trace[j].stage = "validate" THEN (j > 1 /\ trace[j - 1] = Event("fetch", trace[j].city, TRUE)) ELSE IF trace[j].stage = "aggregate" THEN (j > 1 /\ trace[j - 1] = Event("validate", trace[j].city, TRUE)) ELSE (j > 1 /\ trace[j - 1] = Event("aggregate", trace[j].city, TRUE))

\* C10: the stages of a location occur in the order fetch, validate,
\* aggregate, render and end before the next location's fetch; process_data
\* is called only on a `daily` the validator accepted, and plot_data only
\* after process_data returned a result for the same location.
C10_StagesInOrder == /\ \A j \in 1..Len(trace) : StageFollows(j)
                     /\ (pc \in {"fetch", "done"} /\ trace # <<>>) => Terminal(trace[Len(trace)])
                     /\ (pc = "process") => (WellFormed(data) /\ daily = Some(data.daily) /\ trace[Len(trace)] = Event("validate", city, TRUE))
                     /\ (pc = "plot") => (processed.called /\ ~processed.none /\ ~processed.raised /\ trace[Len(trace)] = Event("aggregate", city, TRUE))

C10_Witness == /\ pc = "done"
               /\ Len(trace) = 4 * Len(COORDINATES)
               /\ images = Range(COORDINATES)

====
